---- MODULE Spec2Model ----
(***************************************************************************)
(* Model of the TORCS bridge of src/environment.py: the simulator process  *)
(* supervisor (Environment.Server), the UDP client (Environment.Client)    *)
(* with its handshake, action validation, wire codec and receive loop, and *)
(* the Environment facade (step, check_sensors, restart_race,              *)
(* restart_environment).                                                   *)
(*                                                                         *)
(* Text is a sequence of one-character strings.  Numbers are integers in   *)
(* thousandths (1.0 is 1000), which is exact for every value with at most  *)
(* three decimals.  A Python value is a record [t, v]: t is "num" (v the   *)
(* number), "str" (v the text) or "list" (v the sequence of values).       *)
(***************************************************************************)
EXTENDS Integers, Sequences, FiniteSets, TLC

\* ------------------------------------------------------------------------
\* Python values and text helpers
\* ------------------------------------------------------------------------

\* F applied to its arguments, each of which is evaluated once
Once1(F(_), a) == CHOOSE r \in {F(x) : x \in {a}} : TRUE
Once2(F(_, _), a, b) == CHOOSE r \in {F(x, y) : x \in {a}, y \in {b}} : TRUE
Once3(F(_, _, _), a, b, c) ==
    CHOOSE r \in {F(x, y, z) : x \in {a}, y \in {b}, z \in {c}} : TRUE

Num(n) == [t |-> "num", v |-> n]
Text(s) == [t |-> "str", v |-> s]
List(l) == [t |-> "list", v |-> l]

Whitespace == {" ", "\n", "\t", "\r"}
Digits == {"0", "1", "2", "3", "4", "5", "6", "7", "8", "9"}

\* str.lstrip(cs): the text from its first character outside cs on
LStripSet(s, cs) ==
    LET F(x) == LET keep == {i \in 1..Len(x) : x[i] \notin cs}
                IN IF keep = {} THEN <<>>
                   ELSE SubSeq(x, CHOOSE i \in keep : \A j \in keep : i <= j,
                               Len(x))
    IN Once1(F, s)

\* str.rstrip(cs): the text up to its last character outside cs
RStripSet(s, cs) ==
    LET F(x) == LET keep == {i \in 1..Len(x) : x[i] \notin cs}
                IN IF keep = {} THEN <<>>
                   ELSE SubSeq(x, 1, CHOOSE i \in keep : \A j \in keep : i >= j)
    IN Once1(F, s)

\* str.strip(): leading and trailing whitespace removed
Strip(s) == RStripSet(LStripSet(s, Whitespace), Whitespace)

\* s[:-1]
DropLast(s) == IF s = <<>> THEN s ELSE SubSeq(s, 1, Len(s) - 1)

IsPrefix(p, s) == Len(p) <= Len(s) /\ SubSeq(s, 1, Len(p)) = p

\* the Python operator `p in s` on text
Contains(s, p) ==
    LET F(x, q) == \E i \in 0..(Len(x) - Len(q)) : SubSeq(x, i + 1, i + Len(q)) = q
    IN Once2(F, s, p)

\* str.split(sep): the pieces between the non-overlapping occurrences of
\* sep, scanned left to right; always at least one piece
RECURSIVE Split(_, _)
Split(s, sep) ==
    LET F(x, p) ==
            LET hits == {i \in 1..(Len(x) - Len(p) + 1) :
                             SubSeq(x, i, i + Len(p) - 1) = p}
                first == CHOOSE i \in hits : \A j \in hits : i <= j
            IN IF hits = {} THEN <<x>>
               ELSE <<SubSeq(x, 1, first - 1)>>
                    \o Split(SubSeq(x, first + Len(p), Len(x)), p)
    IN Once2(F, s, sep)

\* ------------------------------------------------------------------------
\* Decoding: float(), destringify, parse_server_string
\* ------------------------------------------------------------------------

DigitVal(c) ==
    CASE c = "0" -> 0 [] c = "1" -> 1 [] c = "2" -> 2 [] c = "3" -> 3
      [] c = "4" -> 4 [] c = "5" -> 5 [] c = "6" -> 6 [] c = "7" -> 7
      [] c = "8" -> 8 [] c = "9" -> 9

AllDigits(s) == \A i \in 1..Len(s) : s[i] \in Digits

RECURSIVE DigitsVal(_)
DigitsVal(s) ==
    LET F(x) == IF x = <<>> THEN 0
                ELSE DigitsVal(DropLast(x)) * 10 + DigitVal(x[Len(x)])
    IN Once1(F, s)

\* the token without surrounding whitespace and without its sign
Unsigned(tok) ==
    LET F(s) == IF s # <<>> /\ Head(s) \in {"+", "-"} THEN Tail(s) ELSE s
    IN Once1(F, Strip(tok))

\* float(tok) succeeds.  Decimal literals only: [sign] digits [. digits],
\* with digits on at least one side of the point.  The datagrams of the
\* model hold no exponent, "inf", "nan" or "_" token.
FloatOk(tok) ==
    LET F(parts) == /\ Len(parts) <= 2
                    /\ \A i \in 1..Len(parts) : AllDigits(parts[i])
                    /\ \E i \in 1..Len(parts) : parts[i] # <<>>
    IN Once1(F, Split(Unsigned(tok), <<".">>))

\* the first three decimals of a fraction, as thousandths
FracVal(f) ==
    LET padded == SubSeq(f \o <<"0", "0", "0">>, 1, 3) IN DigitsVal(padded)

\* float(tok) in thousandths, for a token FloatOk accepts
FloatVal(tok) ==
    LET F(s, parts) ==
            LET mag == DigitsVal(parts[1]) * 1000
                       + (IF Len(parts) = 2 THEN FracVal(parts[2]) ELSE 0)
            IN IF Head(s) = "-" THEN 0 - mag ELSE mag
    IN Once2(F, Strip(tok), Split(Unsigned(tok), <<".">>))

\* destringify: an empty string or list is returned as it is, a string is
\* converted by float() and kept raw when float() raises ValueError, a
\* list of one element collapses to that element, a longer list is
\* converted element by element
RECURSIVE destringify(_)
destringify(string) ==
    LET F(x) ==
            IF x.v = <<>> THEN x
            ELSE IF x.t = "str"
                 THEN IF FloatOk(x.v) THEN Num(FloatVal(x.v)) ELSE x
                 ELSE IF Len(x.v) < 2
                      THEN destringify(x.v[1])
                      ELSE List([i \in 1..Len(x.v) |-> destringify(x.v[i])])
    IN Once1(F, string)

\* a Python dict as the sequence of its entries in insertion order
HasKey(d, k) ==
    LET F(x, key) == \E i \in 1..Len(x) : x[i].k = key
    IN Once2(F, d, k)

\* d[k] = val
DictSet(d, k, val) ==
    LET F(x, key, w) ==
            IF HasKey(x, key)
            THEN [i \in 1..Len(x) |->
                      IF x[i].k = key THEN [k |-> key, v |-> w] ELSE x[i]]
            ELSE Append(x, [k |-> key, v |-> w])
    IN Once3(F, d, k, val)

\* d[k]
DictGet(d, k) ==
    LET F(x, key) == x[CHOOSE i \in 1..Len(x) : x[i].k = key].v
    IN Once2(F, d, k)

\* one group "key tok tok ..." added to track_data
AddGroup(track_data, group) ==
    LET F(w) ==
            LET rest == [i \in 1..(Len(w) - 1) |-> Text(w[i + 1])]
            IN DictSet(track_data, w[1], destringify(List(rest)))
    IN Once1(F, Split(group, <<" ">>))

RECURSIVE AddGroups(_, _)
AddGroups(track_data, groups) ==
    LET F(d, g) == IF g = <<>> THEN d
                   ELSE AddGroups(AddGroup(d, Head(g)), Tail(g))
    IN Once2(F, track_data, groups)

parse_server_string(server_string) ==
    LET s1 == DropLast(Strip(server_string))
        s2 == RStripSet(LStripSet(Strip(s1), {"("}), {")"})
        server_string_list == Split(s2, <<")", "(">>)
    IN AddGroups(<<>>, server_string_list)


\* ------------------------------------------------------------------------
\* Action records: validation and encoding
\* ------------------------------------------------------------------------

K_steer == <<"s", "t", "e", "e", "r">>
K_brake == <<"b", "r", "a", "k", "e">>
K_accel == <<"a", "c", "c", "e", "l">>
K_clutch == <<"c", "l", "u", "t", "c", "h">>
K_gear == <<"g", "e", "a", "r">>
K_meta == <<"m", "e", "t", "a">>
K_focus == <<"f", "o", "c", "u", "s">>

\* an action record with its keys in the order the caller inserted them
ActionRecord(steer, brake, accel, clutch, gear, meta, focus) ==
    << [k |-> K_steer, v |-> Num(steer)], [k |-> K_brake, v |-> Num(brake)],
       [k |-> K_accel, v |-> Num(accel)], [k |-> K_clutch, v |-> Num(clutch)],
       [k |-> K_gear, v |-> Num(gear)], [k |-> K_meta, v |-> Num(meta)],
       [k |-> K_focus, v |-> focus] >>

\* utils.get_empty_actions(): the all-zero record
get_empty_actions == ActionRecord(0, 0, 0, 0, 0, 0, Num(0))

\* mutant: a value out of range is moved one unit towards the range
limit_actionStepwise(v, lo, hi) ==
    IF v < lo THEN v + 1000 ELSE IF v > hi THEN v - 1000 ELSE v

limit_action(v, lo, hi) ==
    IF v < lo THEN lo ELSE IF v > hi THEN hi ELSE v

GearValues == {-1000, 0, 1000, 2000, 3000, 4000, 5000, 6000}
MetaValues == {0, 1000}

\* min() and max() of a non-empty list of numbers
ListMin(l) ==
    LET F(x) == CHOOSE m \in {x[i].v : i \in 1..Len(x)} :
                    \A i \in 1..Len(x) : m <= x[i].v
    IN Once1(F, l)
ListMax(l) ==
    LET F(x) == CHOOSE m \in {x[i].v : i \in 1..Len(x)} :
                    \A i \in 1..Len(x) : m >= x[i].v
    IN Once1(F, l)

\* min() of an empty list raises ValueError
limit_actions_raises(actions) ==
    LET f == DictGet(actions, K_focus) IN f.t = "list" /\ f.v = <<>>

\* mutant: only the smallest element of the focus is looked at
FocusLimitMinOnly(f) ==
    IF f.t # "list" \/ ListMin(f.v) < -180000 THEN Num(0) ELSE f

\* limit_actions, lines 173-175: the focus is reset to 0 unless it is a list
\* within [-180, 180]
FocusLimit(f) ==
    LET F(x) ==
            IF x.t # "list" \/ ListMin(x.v) < -180000 \/ ListMax(x.v) > 180000
            THEN Num(0)
            ELSE x
    IN Once1(F, f)

\* limit_actions, lines 165-172: the scalar fields, assigned in place before
\* the focus is looked at
limit_scalars(actions) ==
    LET a1 == DictSet(actions, K_steer,
                  Num(limit_action(DictGet(actions, K_steer).v, -1000, 1000)))
        a2 == DictSet(a1, K_brake,
                  Num(limit_action(DictGet(a1, K_brake).v, 0, 1000)))
        a3 == DictSet(a2, K_accel,
                  Num(limit_action(DictGet(a2, K_accel).v, 0, 1000)))
        a4 == DictSet(a3, K_clutch,
                  Num(limit_action(DictGet(a3, K_clutch).v, 0, 1000)))
        a5 == IF DictGet(a4, K_gear).v \notin GearValues
              THEN DictSet(a4, K_gear, Num(0)) ELSE a4
        a6 == IF DictGet(a5, K_meta).v \notin MetaValues
              THEN DictSet(a5, K_meta, Num(0)) ELSE a5
    IN a6

limit_actions(actions) ==
    LET F(a6) == DictSet(a6, K_focus, FocusLimit(DictGet(a6, K_focus)))
    IN Once1(F, limit_scalars(actions))

RECURSIVE NatStr(_)
NatStr(n) ==
    LET d == <<"0", "1", "2", "3", "4", "5", "6", "7", "8", "9">>[(n % 10) + 1]
    IN IF n < 10 THEN <<d>> ELSE Append(NatStr(n \div 10), d)

Abs(n) == IF n < 0 THEN 0 - n ELSE n

\* '%.3f' % v
Fmt3(n) ==
    LET m == Abs(n)
        frac == m % 1000
    IN (IF n < 0 THEN <<"-">> ELSE <<>>) \o NatStr(m \div 1000) \o <<".">>
       \o NatStr(frac \div 100) \o NatStr((frac \div 10) % 10)
       \o NatStr(frac % 10)

\* str(x) of a float: the shortest decimal, with at least one decimal
StrFloat(n) ==
    LET m == Abs(n)
        frac == m % 1000
        decimals == IF frac % 100 = 0 THEN NatStr(frac \div 100)
                    ELSE IF frac % 10 = 0
                         THEN NatStr(frac \div 100) \o NatStr((frac \div 10) % 10)
                         ELSE NatStr(frac \div 100) \o NatStr((frac \div 10) % 10)
                              \o NatStr(frac % 10)
    IN (IF n < 0 THEN <<"-">> ELSE <<>>) \o NatStr(m \div 1000) \o <<".">>
       \o decimals

\* ' '.join(parts)
RECURSIVE JoinSpace(_)
JoinSpace(parts) ==
    LET F(x) == IF x = <<>> THEN <<>>
                ELSE IF Len(x) = 1 THEN x[1]
                     ELSE x[1] \o <<" ">> \o JoinSpace(Tail(x))
    IN Once1(F, parts)

EncodeValue(val) ==
    LET F(v) == IF v.t # "list" THEN Fmt3(v.v)
                ELSE JoinSpace([i \in 1..Len(v.v) |-> StrFloat(v.v[i].v)])
    IN Once1(F, val)

RECURSIVE encode_actions(_)
encode_actions(actions) ==
    LET F(a) == IF a = <<>> THEN <<>>
                ELSE <<"(">> \o Head(a).k \o <<" ">> \o EncodeValue(Head(a).v)
                     \o <<")">> \o encode_actions(Tail(a))
    IN Once1(F, actions)


\* ------------------------------------------------------------------------
\* The bridge as a state machine
\* ------------------------------------------------------------------------

\* bounds of the model
MaxAttempts == 6     \* identify requests of one handshake
MaxStepWaits == 3    \* receive attempts of one step
MaxQueue == 1        \* datagrams waiting on the socket

\* connect_to_server: tries = 3
InitialTries == 3

identify == <<"*", "*", "*", "i", "d", "e", "n", "t", "i", "f", "i", "e", "d",
              "*", "*", "*">>

\* datagrams the simulator can deliver
DgIdentified == identify \o <<"\n">>
DgSensors == <<"(", "a", " ", "0", ".", "1", ")",
               "(", "t", " ", "1", " ", "2", ")", "\n">>
DgNotNumeric == <<"(", "a", " ", "x", ")", "\n">>
DgEmpty == <<>>
Datagrams == {DgIdentified, DgSensors, DgNotNumeric, DgEmpty}

\* action records a caller passes to step; NoActions is None
NoActions == <<>>
StepInputs ==
    { NoActions,
      ActionRecord(500, 0, 1000, 0, 1000, 0, Num(0)),
      ActionRecord(5000, -200, 500, 1001, 9000, 2000, List(<<Num(200000)>>)),
      ActionRecord(-1500, 0, 0, 0, -1000, 1000,
                   List(<<Num(-90000), Num(90000)>>)),
      ActionRecord(0, 0, 0, 0, 0, 0, List(<<>>)) }

\* values of sensors['trackPos'] a caller passes to check_sensors
TrackPosInputs == {-1500, -1000, 900, 1000, 1001}

VARIABLES
    gui,        \* Environment.gui / Server.gui
    pc,         \* the statement the program is at
    stack,      \* the statements the running calls return to
    op,         \* the Environment operation the caller invoked last
    arg,        \* its argument (check_sensors: trackPos)
    running,    \* number of running simulator instances
    exited,     \* an instance exited on its own since the last launch
    atRestart,  \* running, as it was when Server.restart was last entered
    socket,     \* Client.socket has been created
    rxq,        \* datagrams waiting on Client.socket
    identified, \* an identification reply was received on Client.socket
    tries,      \* connect_to_server: tries
    sockdata,   \* connect_to_server / get_server_input: sockdata
    actions,    \* step: actions
    message,    \* step / send_restart_request: message
    wire,       \* the action datagrams sent since the operation began
    result,     \* what step returned: <<actions, sensors>>
    log,        \* the events since the operation began
    timeouts,   \* receive timeouts since the running receive loop began
    restarts,   \* Server.restart calls of the running handshake
    command,    \* the arguments torcs was last started with
    queued      \* datagrams waiting on the socket when step sent its action

vars == <<gui, pc, stack, op, arg, running, exited, atRestart, socket, rxq, identified,
          tries, sockdata, actions, message, wire, result, log, timeouts,
          restarts, command, queued>>

\* the number of occurrences of e in l
CountFrom(l, e, i) == Cardinality({j \in i..Len(l) : l[j] = e})

Count(l, e) == CountFrom(l, e, 1)

\* mutant: pkill terminates nothing
pkillNothing(n) == n

\* os.system('pkill torcs'): every running instance is terminated
pkill(n) == 0

\* os.system('torcs ... &'): one more instance runs
launch(n) == n + 1

Init ==
    /\ gui \in BOOLEAN
    /\ pc = "new"
    /\ stack = <<>>
    /\ op = "none"
    /\ arg = 0
    /\ running \in {0, 1}
    /\ exited = FALSE
    /\ atRestart = -1
    /\ socket = FALSE
    /\ rxq = <<>>
    /\ identified = FALSE
    /\ tries = 0
    /\ sockdata = <<>>
    /\ actions = <<>>
    /\ message = <<>>
    /\ wire = <<>>
    /\ result = <<>>
    /\ log = <<>>
    /\ timeouts = 0
    /\ restarts = 0
    /\ command = <<>>
    /\ queued = 0

\* a call returns to the statement on top of the stack
Return ==
    /\ pc' = Head(stack)
    /\ stack' = Tail(stack)


Event(e) == log' = Append(log, e)

Terminated == pc \in {"exited", "raised"}

\* sys.exit(-1): the program ends, and why is all that is left of it; no
\* operation is running any more, its locals and its call stack are gone,
\* the simulator process and what the network holds stay as they are
Exit(cause) ==
    /\ pc' = "exited"
    /\ stack' = <<>>
    /\ op' = "none"
    /\ arg' = 0
    /\ tries' = 0
    /\ sockdata' = <<>>
    /\ actions' = <<>>
    /\ message' = <<>>
    /\ wire' = <<>>
    /\ result' = <<>>
    /\ log' = <<cause>>
    /\ timeouts' = 0
    /\ restarts' = 0
    /\ queued' = 0
    /\ UNCHANGED <<command, gui, running, exited, atRestart, socket, rxq,
                   identified>>

\* ---- Environment.Server --------------------------------------------------

\* Environment.__init__ / Server.__init__: the fields, create_race_xml, and
\* on to init_server; Client.__init__ follows
ServerInit ==
    /\ pc = "new"
    /\ op' = "init"
    /\ log' = <<"xml">>
    /\ pc' = "init_server"
    /\ stack' = <<"create_socket", "idle">>
    /\ UNCHANGED <<command, queued, gui, arg, running, exited, atRestart, socket, rxq, identified, tries,
                   sockdata, actions, message, wire, result, timeouts,
                   restarts>>

\* init_server: pkill torcs, sleep
InitServerKill ==
    /\ pc = "init_server"
    /\ running' = pkill(running)
    /\ Event("pkill")
    /\ pc' = "launch"
    /\ UNCHANGED <<command, queued, gui, exited, stack, op, arg, atRestart, socket, rxq, identified,
                   tries, sockdata, actions, message, wire, result, timeouts,
                   restarts>>

\* Server.quickrace_xml_path
quickrace_xml_path == "~/.torcs/config/raceman/quickrace.xml"

\* init_server, gui: the arguments of torcs, the same with and without the
\* optirun wrapper
InteractiveArgs == <<"-nofuel", "-nodamage", "-nolaptime">>

\* init_server, headless: the arguments of torcs
HeadlessArgs ==
    <<"-nofuel", "nodamage", "-nolaptime", "-r", quickrace_xml_path>>

\* init_server, gui: torcs is started in the background, sleep
LaunchInteractive ==
    /\ pc = "launch"
    /\ gui
    /\ running' = launch(running)
    /\ exited' = FALSE
    /\ command' = InteractiveArgs
    /\ Event("launch")
    /\ pc' = "autostart"
    /\ UNCHANGED <<queued, gui, stack, op, arg, atRestart, socket, rxq, identified,
                   tries, sockdata, actions, message, wire, result, timeouts,
                   restarts>>

\* init_server, gui: sh autostart.sh, and init_server returns
Autostart ==
    /\ pc = "autostart"
    /\ Event("autostart")
    /\ Return
    /\ UNCHANGED <<command, queued, gui, op, arg, running, exited, atRestart, socket, rxq, identified,
                   tries, sockdata, actions, message, wire, result, timeouts,
                   restarts>>

\* init_server, headless: torcs -r is started in the background, and
\* init_server returns
LaunchHeadless ==
    /\ pc = "launch"
    /\ ~gui
    /\ running' = launch(running)
    /\ exited' = FALSE
    /\ command' = HeadlessArgs
    /\ Event("launch")
    /\ Return
    /\ UNCHANGED <<queued, gui, op, arg, atRestart, socket, rxq, identified, tries,
                   sockdata, actions, message, wire, result, timeouts,
                   restarts>>

\* Server.restart: pkill torcs, sleep, and on to init_server
ServerRestart ==
    /\ pc = "server_restart"
    /\ atRestart' = running
    /\ running' = pkill(running)
    /\ Event("restart")
    /\ pc' = "init_server"
    /\ UNCHANGED <<command, queued, gui, exited, stack, op, arg, socket, rxq, identified, tries,
                   sockdata, actions, message, wire, result, timeouts,
                   restarts>>

\* ---- Environment.Client: socket and handshake ----------------------------

\* Client.__init__ / Client.restart: self.socket = self.create_socket(); the
\* new socket has received nothing, and on to connect_to_server
CreateSocket ==
    /\ pc = "create_socket"
    /\ socket' = TRUE
    /\ rxq' = <<>>
    /\ identified' = FALSE
    /\ Event("socket")
    /\ pc' = "connect"
    /\ UNCHANGED <<command, queued, gui, stack, op, arg, running, exited, atRestart, tries, sockdata,
                   actions, message, wire, result, timeouts,
                   restarts>>

\* create_socket: socket.error, sys.exit(-1)
CreateSocketFails ==
    /\ pc = "create_socket"
    /\ Exit("socket_failed")

\* connect_to_server: tries = 3
ConnectBegin ==
    /\ pc = "connect"
    /\ tries' = InitialTries
    /\ Event("connect")
    /\ pc' = "hs_send"
    /\ timeouts' = 0
    /\ restarts' = 0
    /\ UNCHANGED <<command, queued, gui, stack, op, arg, running, exited, atRestart, socket, rxq,
                   identified, sockdata, actions, message, wire, result>>

\* connect_to_server: the identify request is sent, sockdata = str()
HsSend ==
    /\ pc = "hs_send"
    /\ Count(log, "identify") < MaxAttempts
    /\ Event("identify")
    /\ sockdata' = <<>>
    /\ pc' = "hs_recv"
    /\ UNCHANGED <<command, queued, gui, stack, op, arg, running, exited, atRestart, socket, rxq,
                   identified, tries, actions, message, wire, result, timeouts,
                   restarts>>

\* connect_to_server: sendto raises socket.error, sys.exit(-1)
HsSendFails ==
    /\ pc = "hs_send"
    /\ Exit("identify_failed")

\* connect_to_server: recvfrom returns a datagram
HsRecv ==
    /\ pc = "hs_recv"
    /\ rxq # <<>>
    /\ sockdata' = Head(rxq)
    /\ rxq' = Tail(rxq)
    /\ identified' = (identified \/ Contains(Head(rxq), identify))
    /\ Event("recv")
    /\ pc' = "hs_check"
    /\ UNCHANGED <<command, queued, gui, stack, op, arg, running, exited, atRestart, socket, tries,
                   actions, message, wire, result, timeouts,
                   restarts>>

\* connect_to_server: tries -= 1
TriesAfterTimeout(t) == t - 1

\* mutant: the escalation fires one timeout early
EscalatesEarly(t) == t = 1

\* connect_to_server: if tries == 0
Escalates(t) == t = 0

\* connect_to_server: recvfrom times out; the counter is decremented and,
\* when it is 0, Server.restart is called
HsTimeout ==
    /\ pc = "hs_recv"
    /\ rxq = <<>>
    /\ tries' = TriesAfterTimeout(tries)
    /\ Event("timeout")
    /\ timeouts' = timeouts + 1
    /\ IF Escalates(tries')
       THEN /\ pc' = "server_restart"
            /\ stack' = <<"hs_check">> \o stack
            /\ restarts' = restarts + 1
       ELSE /\ pc' = "hs_check"
            /\ stack' = stack
            /\ restarts' = restarts
    /\ UNCHANGED <<command, queued, gui, op, arg, running, exited, atRestart, socket, rxq,
                   identified, sockdata, actions, message, wire, result>>

\* mutant: any received datagram ends the handshake
IdentifiesAnyData(data) == data # <<>>

\* mutant: no datagram ends the handshake
IdentifiesNever(data) == FALSE

\* connect_to_server: if identify in sockdata
Identifies(data) == Contains(data, identify)

\* mutant: when the marker is missing the handshake receives again without
\* sending a new identify request
HsCheckNoResend ==
    /\ pc = "hs_check"
    /\ IF Identifies(sockdata)
       THEN /\ Event("connected")
            /\ Return
       ELSE /\ pc' = "hs_recv"
            /\ UNCHANGED <<stack, log>>
    /\ UNCHANGED <<command, queued, gui, op, arg, running, exited, atRestart,
                   socket, rxq, identified, tries, sockdata, actions, message,
                   wire, result, timeouts, restarts>>

\* connect_to_server: the loop ends when sockdata holds the marker, and
\* goes round otherwise
HsCheck ==
    /\ pc = "hs_check"
    /\ IF Identifies(sockdata)
       THEN /\ Event("connected")
            /\ Return
       ELSE /\ pc' = "hs_send"
            /\ UNCHANGED <<stack, log, timeouts,
                   restarts>>
    /\ UNCHANGED <<command, queued, gui, op, arg, running, exited, atRestart, socket, rxq, identified,
                   tries, sockdata, actions, message, wire, result, timeouts,
                   restarts>>


\* ---- Environment.step / Client.step --------------------------------------

\* a caller invokes an operation of a constructed Environment
Begin(name, a) ==
    /\ pc = "idle"
    /\ op' = name
    /\ arg' = a
    /\ log' = <<>>
    /\ wire' = <<>>
    /\ result' = <<>>
    /\ atRestart' = -1
    /\ tries' = 0
    /\ sockdata' = <<>>
    /\ message' = <<>>
    /\ timeouts' = 0
    /\ restarts' = 0
    /\ queued' = 0

\* step: None is replaced by the empty action record
Step(a) ==
    /\ Begin("step", 0)
    /\ actions' = IF a = NoActions THEN get_empty_actions ELSE a
    /\ pc' = "step_limit"
    /\ UNCHANGED <<command, gui, stack, running, exited, socket, rxq, identified>>

\* step: self.limit_actions(actions), in place
StepLimit ==
    /\ pc = "step_limit"
    /\ Event("limit")
    /\ IF limit_actions_raises(actions)
       THEN /\ pc' = "raised"
            /\ actions' = limit_scalars(actions)
       ELSE /\ pc' = "step_encode"
            /\ actions' = limit_actions(actions)
    /\ UNCHANGED <<command, queued, gui, stack, op, arg, running, exited, atRestart, socket, rxq,
                   identified, tries, sockdata, message, wire, result, timeouts,
                   restarts>>

\* step: message = self.encode_actions(actions)
StepEncode ==
    /\ pc = "step_encode"
    /\ Event("encode")
    /\ message' = encode_actions(actions)
    /\ pc' = "step_send"
    /\ UNCHANGED <<command, queued, gui, stack, op, arg, running, exited, atRestart, socket, rxq,
                   identified, tries, sockdata, actions, wire, result, timeouts,
                   restarts>>

\* step: self.send_message(message), and get_server_input begins with
\* sockdata = str()
StepSend ==
    /\ pc = "step_send"
    /\ Event("send")
    /\ wire' = Append(wire, message)
    /\ sockdata' = <<>>
    /\ queued' = Len(rxq)
    /\ pc' = "step_recv"
    /\ UNCHANGED <<command, gui, stack, op, arg, running, exited, atRestart, socket, rxq,
                   identified, tries, actions, message, result, timeouts,
                   restarts>>

\* mutant: the failure of the send is ignored and step goes on to receive
StepSendFailsIgnored ==
    /\ pc = "step_send"
    /\ Event("send_failed")
    /\ sockdata' = <<>>
    /\ pc' = "step_recv"
    /\ UNCHANGED <<command, queued, gui, stack, op, arg, running, exited,
                   atRestart, socket, rxq, identified, tries, actions,
                   message, wire, result, timeouts, restarts>>

\* send_message: sendto raises socket.error and the handler ends the
\* program: sys.exit(-1), or already the print before it, emsg[1] raising
\* where an exception cannot be indexed
StepSendFails ==
    /\ pc = "step_send"
    /\ Exit("send_failed")

StepWaits == Len(log) - 3

\* mutant: the receive loop returns whatever recvfrom returned
ReceivedAlways(data) == TRUE

\* get_server_input: if sockdata
Received(data) == data # <<>>

\* get_server_input: recvfrom returns a datagram; a non-empty one is parsed
\* and step returns (actions, sensors)
GsiRecv ==
    /\ pc = "step_recv"
    /\ rxq # <<>>
    /\ Received(Head(rxq)) \/ StepWaits < MaxStepWaits
    /\ sockdata' = Head(rxq)
    /\ rxq' = Tail(rxq)
    /\ Event("recv")
    /\ IF Received(sockdata')
       THEN /\ result' = <<actions, parse_server_string(sockdata')>>
            /\ pc' = "idle"
       ELSE /\ result' = result
            /\ pc' = pc
    /\ UNCHANGED <<command, queued, gui, stack, op, arg, running, exited, atRestart, socket, identified,
                   tries, actions, message, wire, timeouts,
                   restarts>>

\* mutant: the action datagram is sent again after a timeout
GsiTimeoutResends ==
    /\ pc = "step_recv"
    /\ rxq = <<>>
    /\ StepWaits < MaxStepWaits
    /\ log' = log \o <<"timeout", "send">>
    /\ wire' = Append(wire, message)
    /\ timeouts' = timeouts + 1
    /\ UNCHANGED <<command, queued, gui, pc, stack, op, arg, running, exited, atRestart, socket,
                   rxq, identified, tries, sockdata, actions, message, result, restarts>>

\* get_server_input: recvfrom times out and the loop goes round
GsiTimeout ==
    /\ pc = "step_recv"
    /\ rxq = <<>>
    /\ StepWaits < MaxStepWaits
    /\ Event("timeout")
    /\ timeouts' = timeouts + 1
    /\ UNCHANGED <<command, queued, gui, pc, stack, op, arg, running, exited, atRestart, socket, rxq,
                   identified, tries, sockdata, actions, message, wire, result, restarts>>

\* ---- Environment: check_sensors, restart_race, restart_environment -------

\* mutant: the boundary counts as off the track
OffTrackInclusive(trackPos) == Abs(trackPos) >= 1000

\* check_sensors: abs(sensors['trackPos']) > 1
OffTrack(trackPos) == Abs(trackPos) > 1000

\* check_sensors(sensors): restart_race when the car is off the track
CheckSensors(trackPos) ==
    /\ Begin("check_sensors", trackPos)
    /\ IF OffTrack(trackPos)
       THEN /\ pc' = "restart_race"
            /\ stack' = <<"idle">>
       ELSE /\ pc' = "idle"
            /\ stack' = stack
    /\ actions' = <<>>
    /\ UNCHANGED <<command, gui, running, exited, socket, rxq, identified>>

\* the caller invokes restart_race
CallRestartRace ==
    /\ Begin("restart_race", 0)
    /\ pc' = "restart_race"
    /\ stack' = <<"idle">>
    /\ actions' = <<>>
    /\ UNCHANGED <<command, gui, running, exited, socket, rxq, identified>>

\* the caller invokes restart_environment
CallRestartEnvironment ==
    /\ Begin("restart_environment", 0)
    /\ pc' = "restart_environment"
    /\ stack' = <<"idle">>
    /\ actions' = <<>>
    /\ UNCHANGED <<command, gui, running, exited, socket, rxq, identified>>

\* mutant: the mode is ignored
RaceRestartAlwaysFull(g) == "restart_environment"

\* restart_race: if self.gui
RaceRestartTarget(g) ==
    IF g THEN "send_restart_request" ELSE "restart_environment"

\* restart_race: the restart request and Client.restart in gui mode,
\* restart_environment otherwise
RestartRace ==
    /\ pc = "restart_race"
    /\ Event("restart_race")
    /\ pc' = RaceRestartTarget(gui)
    /\ UNCHANGED <<command, queued, gui, stack, op, arg, running, exited, atRestart, socket, rxq,
                   identified, tries, sockdata, actions, message, wire, result, timeouts,
                   restarts>>

\* mutant: the client reconnects before the server is restarted
RestartEnvironmentClientFirst ==
    /\ pc = "restart_environment"
    /\ Event("restart_environment")
    /\ pc' = "create_socket"
    /\ stack' = <<"server_restart">> \o stack
    /\ UNCHANGED <<command, queued, gui, op, arg, running, exited, atRestart, socket, rxq,
                   identified, tries, sockdata, actions, message, wire, result, timeouts,
                   restarts>>

\* restart_environment: self.server.restart(), then self.client.restart()
RestartEnvironment ==
    /\ pc = "restart_environment"
    /\ Event("restart_environment")
    /\ pc' = "server_restart"
    /\ stack' = <<"create_socket">> \o stack
    /\ UNCHANGED <<command, queued, gui, op, arg, running, exited, atRestart, socket, rxq, identified,
                   tries, sockdata, actions, message, wire, result, timeouts,
                   restarts>>

\* send_restart_request: actions = get_empty_actions(); actions['meta'] = True
RestartRequest == DictSet(get_empty_actions, K_meta, Num(1000))

\* send_restart_request: the meta record is encoded and sent; Client.restart
\* follows
SendRestartRequest ==
    /\ pc = "send_restart_request"
    /\ message' = encode_actions(RestartRequest)
    /\ wire' = Append(wire, message')
    /\ Event("send")
    /\ pc' = "create_socket"
    /\ UNCHANGED <<command, queued, gui, stack, op, arg, running, exited, atRestart, socket, rxq,
                   identified, tries, sockdata, actions, result, timeouts,
                   restarts>>

\* send_message: sendto raises socket.error and the handler ends the
\* program
SendRestartRequestFails ==
    /\ pc = "send_restart_request"
    /\ Exit("restart_request_failed")

\* ---- the simulator and the network ---------------------------------------

\* a datagram arrives on the client's socket
SimDeliver(d) ==
    /\ socket
    /\ ~Terminated
    /\ Len(rxq) < MaxQueue
    /\ rxq' = Append(rxq, d)
    /\ UNCHANGED <<command, queued, gui, pc, stack, op, arg, running, exited, atRestart, socket,
                   identified, tries, sockdata, actions, message, wire, result,
                   log, timeouts,
                   restarts>>

\* a simulator instance exits on its own
SimExit ==
    /\ running > 0
    /\ ~Terminated
    /\ running' = running - 1
    /\ exited' = TRUE
    /\ UNCHANGED <<command, queued, gui, pc, stack, op, arg, atRestart, socket, rxq, identified,
                   tries, sockdata, actions, message, wire, result, log, timeouts,
                   restarts>>

Next ==
    \/ ServerInit
    \/ InitServerKill
    \/ LaunchInteractive
    \/ Autostart
    \/ LaunchHeadless
    \/ ServerRestart
    \/ CreateSocket
    \/ CreateSocketFails
    \/ ConnectBegin
    \/ HsSend
    \/ HsSendFails
    \/ HsRecv
    \/ HsTimeout
    \/ HsCheck
    \/ \E a \in StepInputs : Step(a)
    \/ StepLimit
    \/ StepEncode
    \/ StepSend
    \/ StepSendFails
    \/ GsiRecv
    \/ GsiTimeout
    \/ \E trackPos \in TrackPosInputs : CheckSensors(trackPos)
    \/ CallRestartRace
    \/ CallRestartEnvironment
    \/ RestartRace
    \/ RestartEnvironment
    \/ SendRestartRequest
    \/ SendRestartRequestFails
    \/ \E d \in Datagrams : SimDeliver(d)
    \/ SimExit

Spec == Init /\ [][Next]_vars

\* the statement the program is at is executed: every step of the bridge
\* other than a call by its caller and a failing socket operation
Run ==
    \/ InitServerKill
    \/ LaunchInteractive
    \/ Autostart
    \/ LaunchHeadless
    \/ ServerRestart
    \/ CreateSocket
    \/ ConnectBegin
    \/ HsSend
    \/ HsRecv
    \/ HsTimeout
    \/ HsCheck
    \/ StepLimit
    \/ StepEncode
    \/ StepSend
    \/ GsiRecv
    \/ GsiTimeout
    \/ RestartRace
    \/ RestartEnvironment
    \/ SendRestartRequest

\* the Environment as train constructs it: Environment(), gui True by default
FairInit == Init /\ gui

\* the interactive bridge driven through its constructor, step and
\* restart_environment: the three entries that reach a blocking loop when
\* gui is True (restart_race then only sends the restart request)
FairNext ==
    \/ ServerInit
    \/ InitServerKill
    \/ LaunchInteractive
    \/ Autostart
    \/ ServerRestart
    \/ CreateSocket
    \/ CreateSocketFails
    \/ ConnectBegin
    \/ HsSend
    \/ HsSendFails
    \/ HsRecv
    \/ HsTimeout
    \/ HsCheck
    \/ \E a \in StepInputs : Step(a)
    \/ StepLimit
    \/ StepEncode
    \/ StepSend
    \/ StepSendFails
    \/ GsiRecv
    \/ GsiTimeout
    \/ CallRestartEnvironment
    \/ RestartEnvironment
    \/ \E d \in Datagrams : SimDeliver(d)
    \/ SimExit

\* the interpreter goes on running the program: a statement that can be
\* executed is executed; the caller, the simulator and the network are
\* promised nothing
FairSpec == FairInit /\ [][FairNext]_vars /\ WF_vars(Run)


\* ------------------------------------------------------------------------
\* The pure functions on their own: limit_actions, encode_actions and
\* parse_server_string applied to inputs drawn from bounded sets
\* ------------------------------------------------------------------------

\* values of the fields of an action record passed to limit_actions
SteerInputs == {-1001, -1000, 500, 1000, 5000}
BrakeInputs == {-200, 0, 1000, 1001}
AccelInputs == {500, 1500}
ClutchInputs == {-1, 250}
GearInputs == {-1000, 2500, 6000, 9000}
MetaInputs == {0, 1000, 2000}
FocusInputs ==
    { Num(0), Num(5000), List(<<>>), List(<<Num(200000)>>),
      List(<<Num(90000)>>), List(<<Num(-90000), Num(90000)>>),
      List(<<Num(-180000), Num(0), Num(180000)>>),
      List(<<Num(-180001), Num(0)>>) }

ActionInputs ==
    { ActionRecord(st, br, ac, cl, ge, me, fo) :
          st \in SteerInputs, br \in BrakeInputs, ac \in AccelInputs,
          cl \in ClutchInputs, ge \in GearInputs, me \in MetaInputs,
          fo \in FocusInputs }

\* datagrams passed to parse_server_string
DgMarked ==
    <<"(", "a", "n", "g", "l", "e", " ", "0", ".", "1", ")", "(", "t",
      "r", "a", "c", "k", " ", "1", ".", "0", " ", "2", ".", "0", " ",
      "3", ".", "0", ")", "*", "*", "*", "i", "d", "e", "n", "t", "i",
      "f", "i", "e", "d", "*", "*", "*", "\n">>
DgUnmarked ==
    <<"(", "a", "n", "g", "l", "e", " ", "0", ".", "1", ")", "(", "t",
      "r", "a", "c", "k", " ", "1", ".", "0", " ", "2", ".", "0", " ",
      "3", ".", "0", ")", "\n">>
DgMarkedScalar ==
    <<"(", "a", "n", "g", "l", "e", " ", "0", ".", "1", ")", "*", "*",
      "*", "i", "d", "e", "n", "t", "i", "f", "i", "e", "d", "*", "*",
      "*", "\n">>
DecodeInputs == {DgMarked, DgUnmarked, DgMarkedScalar, DgSensors, DgNotNumeric}

\* what one call of limit_actions did: whether it raised, and the record as
\* the call left it
Outcome(r, a) == [raised |-> r, actions |-> a]

CodecInit ==
    /\ gui = FALSE
    /\ stack = <<>>
    /\ running = 0
    /\ exited = FALSE
    /\ atRestart = -1
    /\ socket = FALSE
    /\ rxq = <<>>
    /\ identified = FALSE
    /\ tries = 0
    /\ message = <<>>
    /\ wire = <<>>
    /\ result = <<>>
    /\ log = <<>>
    /\ timeouts = 0
    /\ restarts = 0
    /\ command = <<>>
    /\ queued = 0
    /\ \/ /\ op = "limit_actions"
          /\ pc = "limit"
          /\ arg \in ActionInputs
          /\ actions = arg
          /\ sockdata = <<>>
       \/ /\ op = "parse_server_string"
          /\ pc = "parse"
          /\ arg \in DecodeInputs
          /\ actions = <<>>
          /\ sockdata = arg

\* limit_actions(actions) is called, and called again on what it left: the
\* record is changed in place, also by a call that raises
ApplyLimitActions ==
    /\ pc = "limit"
    /\ actions' = IF limit_actions_raises(actions)
                  THEN limit_scalars(actions)
                  ELSE limit_actions(actions)
    /\ result' = Append(result,
                        Outcome(limit_actions_raises(actions), actions'))
    /\ Event("limit")
    /\ pc' = IF Len(result) = 0 THEN "limit" ELSE "encode"
    /\ UNCHANGED <<command, queued, gui, stack, op, arg, running, exited,
                   atRestart, socket, rxq, identified, tries, sockdata,
                   message, wire, timeouts, restarts>>

\* message = encode_actions(actions), handed to the decoder as it is
ApplyEncodeActions ==
    /\ pc = "encode"
    /\ message' = encode_actions(actions)
    /\ sockdata' = message'
    /\ Event("encode")
    /\ pc' = "parse"
    /\ UNCHANGED <<command, queued, gui, stack, op, arg, running, exited,
                   atRestart, socket, rxq, identified, tries, actions, wire,
                   result, timeouts, restarts>>

\* parse_server_string(sockdata)
ApplyParseServerString ==
    /\ pc = "parse"
    /\ result' = Append(result, parse_server_string(sockdata))
    /\ Event("parse")
    /\ pc' = "done"
    /\ UNCHANGED <<command, queued, gui, stack, op, arg, running, exited,
                   atRestart, socket, rxq, identified, tries, sockdata,
                   actions, message, wire, timeouts, restarts>>

CodecNext ==
    \/ ApplyLimitActions
    \/ ApplyEncodeActions
    \/ ApplyParseServerString

CodecSpec == CodecInit /\ [][CodecNext]_vars


\* ------------------------------------------------------------------------
\* Properties
\* ------------------------------------------------------------------------

Last(l) == l[Len(l)]

\* l and p agree wherever both are defined
PrefixCompatible(l, p) ==
    \A i \in 1..Len(l) : i <= Len(p) => l[i] = p[i]

\* the position of e in l at or after i, 0 when there is none
Position(l, e, i) ==
    LET hits == {j \in i..Len(l) : l[j] = e}
    IN IF hits = {} THEN 0 ELSE CHOOSE j \in hits : \A k \in hits : j <= k

\* the position of the handshake's start in the log, 0 when there is none
HsStart == Position(log, "connect", 1)

\* the events of the running (or finished) handshake invocation
HsLog == IF HsStart = 0 THEN <<>> ELSE SubSeq(log, HsStart + 1, Len(log))

\* C1: a step validates, encodes and sends exactly once, in this order, and
\* only then receives; however many receive attempts follow, no second
\* action datagram is sent; the pair it returns holds the record that was
\* sent and the record decoded from the datagram received after the send.
C1_StepSendsThenReceives ==
    op = "step" =>
        /\ \A i \in 1..Len(log) :
               IF i <= 3 THEN log[i] = <<"limit", "encode", "send">>[i]
               ELSE log[i] \in {"recv", "timeout"}
        /\ Len(wire) = Count(log, "send")
        /\ pc = "step_recv" => Len(wire) = 1
        /\ pc = "idle" =>
               /\ Len(log) > 3
               /\ Last(log) = "recv"
               /\ Len(result) = 2
               /\ wire = <<encode_actions(result[1])>>
               /\ result[2] = parse_server_string(sockdata)

\* a step has returned after two or more receive timeouts
C1_Witness ==
    /\ op = "step"
    /\ pc = "idle"
    /\ Count(log, "timeout") >= 2
    /\ Len(result) = 2

\* a float, or a non-empty sequence of floats
IsFloatValue(val) ==
    \/ val.t = "num"
    \/ /\ val.t = "list"
       /\ val.v # <<>>
       /\ \A i \in 1..Len(val.v) : val.v[i].t = "num"

\* C2: every value of a sensor record that step returns is a float or a
\* sequence of floats, never a raw string or an empty value.
C2_StepReturnsOnlyFloats ==
    (op = "step" /\ pc = "idle") =>
        \A i \in 1..Len(result[2]) : IsFloatValue(result[2][i].v)

\* C3: the handshake returns only when the datagram it has just received
\* holds the identification marker; until then it is still running, and the
\* session is connected only after an identification reply was received on
\* the current socket.
C3_HandshakeReturnsIdentified ==
    /\ pc = "idle" => socket /\ identified
    /\ LET c == Position(log, "connected", 1)
       IN IF c > 0
          THEN /\ c = Len(log)
               /\ c > 1 /\ log[c - 1] = "recv"
               /\ Contains(sockdata, identify)
               /\ identified
               /\ pc = "idle"
          ELSE HsStart > 0 =>
                   pc \in {"hs_send", "hs_recv", "hs_check", "server_restart",
                           "init_server", "launch", "autostart"}

\* the handshake has returned after timeouts, a process restart and a
\* received datagram without the marker
C3_Witness ==
    /\ pc = "idle"
    /\ Count(log, "connected") = 1
    /\ timeouts >= 3
    /\ restarts >= 1
    /\ Count(HsLog, "recv") >= 2


\* the position in l of the first Server.restart, 0 when there is none
\* the last event of init_server
LastServerStep == IF gui THEN "autostart" ELSE "launch"

\* Server.restart runs right after a timeout of the handshake, and when it
\* has returned the handshake goes on with an identify request
HsRestartsInPlace ==
    \A i \in (HsStart + 1)..Len(log) :
        /\ log[i] = "restart" => log[i - 1] = "timeout"
        /\ (log[i] = LastServerStep /\ i < Len(log)) => log[i + 1] = "identify"

\* C4, as claimed: the handshake calls Server.restart only when the three
\* receive attempts before the call all timed out, and not when a datagram
\* was received in between.
C4_RestartOnlyAfterThreeConsecutive ==
    (HsStart > 0 /\ restarts > 0) =>
        /\ timeouts >= 3
        /\ HsRestartsInPlace
        /\ \A i \in (HsStart + 1)..Len(log) :
               log[i] = "restart" =>
                   /\ i - HsStart > 6
                   /\ SubSeq(log, i - 6, i - 1) =
                          <<"identify", "timeout", "identify", "timeout",
                            "identify", "timeout">>

\* C4, amended: the handshake calls Server.restart for the first time at
\* the third receive timeout of the invocation, consecutive or not: not
\* after one or two timeouts, once when three have occurred; after the
\* restart it goes on sending identify requests.
C4_RestartAtThirdTimeout ==
    op # "step" =>
        /\ timeouts < 3 => restarts = 0
        /\ timeouts = 3 => restarts = 1
        /\ timeouts > 3 => restarts >= 1
        /\ restarts > 0 => HsRestartsInPlace
        /\ pc = "server_restart" =>
               \/ log = <<"restart_environment">>
               \/ log = <<"restart_race", "restart_environment">>
               \/ HsStart > 0 /\ Last(log) = "timeout" /\ timeouts >= 3

\* the restart came at the third timeout although a datagram was received
\* between the timeouts, and the handshake has sent its next identify request
C4_Witness ==
    /\ restarts = 1
    /\ timeouts = 3
    /\ pc = "hs_recv"
    /\ Last(log) = "identify"
    /\ Count(SubSeq(log, HsStart + 1, Position(log, "restart", 1)), "recv") >= 1
    /\ log[HsStart + 2] = "timeout"

\* C5: within one handshake invocation Server.restart is called after every
\* three timeouts (after 3, 6, 9, ...), the counter being reset to 3.
C5_RestartEveryThreeTimeouts ==
    op # "step" => restarts = timeouts \div 3

\* C6: after the action datagram was sent, the step returns exactly when a
\* non-empty datagram has been received; after any number of timeouts (and
\* empty datagrams) it is still waiting, and while it waits nothing is
\* re-sent, no process restart is called and no handshake is run.
C6_ReceiveBlocksUntilDatagram ==
    (op = "step" /\ Count(log, "send") >= 1) =>
        /\ pc \in {"step_recv", "idle"}
        /\ pc = "idle" <=> (Last(log) = "recv" /\ sockdata # <<>>)
        /\ \A i \in 4..Len(log) : log[i] \in {"recv", "timeout"}
        /\ Len(wire) = 1
        /\ atRestart = -1
        /\ identified

\* the receive loop is still waiting after two timeouts and an empty
\* datagram
C6_Witness ==
    /\ op = "step"
    /\ pc = "step_recv"
    /\ Count(log, "timeout") >= 2
    /\ Count(log, "recv") >= 1

\* C7: check_sensors calls restart_race once when abs(trackPos) > 1 and not
\* at all otherwise, 1 and -1 included; when it does not, nothing is sent,
\* no socket is created and no process is terminated or launched.
C7_CheckSensorsThreshold ==
    op = "check_sensors" =>
        /\ Count(log, "restart_race") <= 1
        /\ (arg > 1000 \/ arg < -1000) =>
               IF log = <<>> THEN pc = "restart_race"
               ELSE log[1] = "restart_race"
        /\ (-1000 <= arg /\ arg <= 1000) =>
               /\ pc = "idle"
               /\ log = <<>>
               /\ wire = <<>>
               /\ atRestart = -1
               /\ socket /\ identified

\* check_sensors was called just beyond the boundary and restart_race has
\* run to its end
C7_Witness ==
    /\ op = "check_sensors"
    /\ arg = 1001
    /\ pc = "idle"
    /\ Count(log, "restart_race") = 1
    /\ Count(log, "connected") = 1

\* Server.restart, as the events it produces
ServerRestartSteps ==
    <<"restart", "pkill", "launch">> \o (IF gui THEN <<"autostart">> ELSE <<>>)

\* restart_environment, as the events it produces up to the first identify
\* request
RestartEnvironmentSteps ==
    <<"restart_environment">> \o ServerRestartSteps
    \o <<"socket", "connect", "identify">>

\* the datagram of the restart request: the default record with meta set
RestartRequestDatagram ==
    encode_actions(ActionRecord(0, 0, 0, 0, 0, 1000, Num(0)))

\* C8: in gui mode restart_race sends one action datagram, the default
\* record with meta set, then reconnects, and the process is restarted only
\* by the handshake's escalation after a timeout; in headless mode it sends
\* no action datagram and does what restart_environment does.
C8_RestartRaceFollowsMode ==
    (log # <<>> /\ log[1] = "restart_race") =>
        IF gui
        THEN /\ PrefixCompatible(log, <<"restart_race", "send", "socket",
                                        "connect", "identify">>)
             /\ Len(log) >= 2 => wire = <<RestartRequestDatagram>>
             /\ LET h == HsStart
                IN \A i \in 1..Len(log) :
                       log[i] = "restart" => i > h /\ log[i - 1] = "timeout"
             /\ restarts = 0 =>
                    \A i \in 1..Len(log) : log[i] \notin {"pkill", "launch"}
        ELSE /\ wire = <<>>
             /\ PrefixCompatible(Tail(log), RestartEnvironmentSteps)

\* restart_race has run to its end in gui mode without a process restart
C8_Witness ==
    /\ op = "restart_race"
    /\ gui
    /\ pc = "idle"
    /\ Count(log, "connected") = 1
    /\ Count(log, "restart") = 0
    /\ Len(wire) = 1

\* C9: restart_environment restarts the process first and reopens the
\* socket and runs the handshake only after the launch; no identify request
\* is sent before the termination and the launch, and it returns only after
\* the handshake received an identification reply.
C9_RestartEnvironmentOrder ==
    op = "restart_environment" =>
        /\ PrefixCompatible(log, RestartEnvironmentSteps)
        /\ \A i \in 1..Len(log) :
               log[i] \in {"socket", "identify"} =>
                   /\ \E j \in 1..(i - 1) : log[j] = "restart"
                   /\ \E j \in 1..(i - 1) : log[j] = "launch"
        /\ pc = "idle" =>
               /\ Last(log) = "connected"
               /\ Contains(sockdata, identify)
               /\ identified

\* restart_environment has returned
C9_Witness ==
    /\ op = "restart_environment"
    /\ pc = "idle"
    /\ Count(log, "connected") = 1

\* C10: at most one simulator instance runs at any time; every launch
\* starts from no running instance, and from the launch on exactly one
\* instance runs for as long as it does not exit on its own; Server.restart
\* with no instance running ends like any other.
C10_ExactlyOneInstance ==
    /\ running <= 1
    /\ pc = "launch" => running = 0
    /\ (pc \notin {"new", "init_server", "launch"} /\ ~exited) => running = 1

\* Server.restart was called with no instance running and has returned
\* with one instance running
C10_Witness ==
    /\ atRestart = 0
    /\ pc \in {"hs_check", "create_socket"}
    /\ running = 1

\* C11: every launch of the simulator is preceded by a write of the race
\* configuration that happened after the previous launch.
C11_ConfigWrittenBeforeEveryLaunch ==
    \A i \in 1..Len(log) :
        log[i] = "launch" =>
            \E j \in 1..(i - 1) :
                /\ log[j] = "xml"
                /\ \A k \in j..(i - 1) : log[k] # "launch"

\* C12: when the bridge has terminated, no socket it created is open and no
\* simulator process it launched runs; and a socket is replaced only after
\* it was closed, so that at most one is open at any time.
C12_ResourcesReleased ==
    /\ pc = "exited" => (~socket /\ running = 0)
    /\ op # "init" =>
           \A i \in 1..Len(log) :
               log[i] = "socket" => \E j \in 1..(i - 1) : log[j] = "close"

\* the value of field k of record a
Field(a, k) == DictGet(a, k).v

\* every field of the action record a is within its range
InRange(a) ==
    /\ -1000 <= Field(a, K_steer) /\ Field(a, K_steer) <= 1000
    /\ \A k \in {K_brake, K_accel, K_clutch} :
           0 <= Field(a, k) /\ Field(a, k) <= 1000
    /\ Field(a, K_gear) \in {-1000, 0, 1000, 2000, 3000, 4000, 5000, 6000}
    /\ Field(a, K_meta) \in {0, 1000}
    /\ LET f == DictGet(a, K_focus)
       IN \/ f = Num(0)
          \/ /\ f.t = "list"
             /\ \A i \in 1..Len(f.v) :
                    -180000 <= f.v[i].v /\ f.v[i].v <= 180000

\* C13: limit_actions raises no error on any record with the seven fields,
\* the empty focus sequence included, and leaves every field within its
\* range.
C13_LimitActionsTotal ==
    (op = "limit_actions" /\ Len(result) >= 1) =>
        /\ ~result[1].raised
        /\ InRange(result[1].actions)

\* C14: limit_actions applied to what limit_actions left changes nothing:
\* the second call leaves the record, field by field, as the first did and
\* ends as the first did; a focus reset to 0 stays 0.
C14_LimitActionsIdempotent ==
    (op = "limit_actions" /\ Len(result) >= 2) => result[2] = result[1]

\* limit_actions was applied twice to a record of which it changed scalar
\* fields and reset the focus list to 0
C14_Witness ==
    /\ op = "limit_actions"
    /\ Len(result) >= 2
    /\ Field(arg, K_steer) = 5000
    /\ Field(arg, K_gear) = 2500
    /\ DictGet(arg, K_focus) = List(<<Num(-180001), Num(0)>>)
    /\ DictGet(result[2].actions, K_focus) = Num(0)
    /\ Field(result[2].actions, K_steer) = 1000

\* the value of [lo, hi] nearest to v
Clamp(v, lo, hi) == IF v \in lo..hi THEN v ELSE IF v < lo THEN lo ELSE hi

\* the focus kept when it is a sequence within [-180, 180], 0 otherwise
ClampFocus(f) ==
    IF /\ f.t = "list"
       /\ \A i \in 1..Len(f.v) : f.v[i].v \in -180000..180000
    THEN f
    ELSE Num(0)

\* the reference clamp of record a, field by field
ReferenceClamp(a) ==
    ActionRecord(Clamp(Field(a, K_steer), -1000, 1000),
                 Clamp(Field(a, K_brake), 0, 1000),
                 Clamp(Field(a, K_accel), 0, 1000),
                 Clamp(Field(a, K_clutch), 0, 1000),
                 IF Field(a, K_gear) \in {-1000, 0, 1000, 2000, 3000, 4000,
                                          5000, 6000}
                 THEN Field(a, K_gear) ELSE 0,
                 IF Field(a, K_meta) \in {0, 1000} THEN Field(a, K_meta) ELSE 0,
                 ClampFocus(DictGet(a, K_focus)))

\* C15: limit_actions leaves in every field the reference clamp of what the
\* field held, whatever the other fields hold: steer clamped to [-1, 1],
\* accel, brake and clutch to [0, 1], gear and meta 0 when outside their
\* sets, focus 0 when it is not a sequence or has an element outside
\* [-180, 180], and values in range unchanged.
C15_LimitActionsClamps ==
    (op = "limit_actions" /\ Len(result) >= 1) =>
        result[1].actions = ReferenceClamp(arg)

\* limit_actions was applied to steer 5, gear 9, meta 2, focus [200] and
\* left steer 1, gear 0, meta 0, focus 0
C15_Witness ==
    /\ op = "limit_actions"
    /\ Len(result) >= 1
    /\ Field(arg, K_steer) = 5000
    /\ Field(arg, K_gear) = 9000
    /\ Field(arg, K_meta) = 2000
    /\ DictGet(arg, K_focus) = List(<<Num(200000)>>)
    /\ Field(result[1].actions, K_steer) = 1000
    /\ Field(result[1].actions, K_gear) = 0
    /\ Field(result[1].actions, K_meta) = 0
    /\ DictGet(result[1].actions, K_focus) = Num(0)

\* record d holds the keys of record a and, under each, the value a holds
SameRecord(a, d) ==
    /\ Len(d) = Len(a)
    /\ \A i \in 1..Len(a) :
           /\ HasKey(d, a[i].k)
           /\ DictGet(d, a[i].k) = a[i].v

\* C16: decoding the encoding of a valid action record gives a record with
\* the same keys, every scalar with its value and every sequence, those of
\* length 1 included, with its length and its elements in order.
C16_CodecRoundTrip ==
    (op = "limit_actions" /\ pc = "done" /\ InRange(actions)) =>
        SameRecord(actions, result[3])

\* text holds no character of the marker's frame
NoMarker(text) == \A i \in 1..Len(text) : text[i] # "*"

\* no string of the value val holds a character of the marker's frame
ValueNoMarker(val) ==
    IF val.t = "str" THEN NoMarker(val.v)
    ELSE IF val.t = "list"
         THEN \A i \in 1..Len(val.v) :
                  val.v[i].t = "str" => NoMarker(val.v[i].v)
         ELSE TRUE

\* {angle: 0.1, track: [1.0, 2.0, 3.0]}
MarkedDecoded ==
    << [k |-> <<"a", "n", "g", "l", "e">>, v |-> Num(100)],
       [k |-> <<"t", "r", "a", "c", "k">>,
        v |-> List(<<Num(1000), Num(2000), Num(3000)>>)] >>

\* C17: a datagram of groups followed by the marker and a terminator decodes
\* to one entry per group, a scalar for one value and the sequence of the
\* values for several, and nothing of the marker is in a key or a value:
\* (angle 0.1)(track 1.0 2.0 3.0)***identified*** gives
\* {angle: 0.1, track: [1.0, 2.0, 3.0]}.
C17_DecodeIgnoresTrailingMarker ==
    (op = "parse_server_string" /\ pc = "done") =>
        /\ arg = DgMarked => result[1] = MarkedDecoded
        /\ \A i \in 1..Len(result[1]) :
               /\ NoMarker(result[1][i].k)
               /\ ValueNoMarker(result[1][i].v)

\* what is left of a program that a failed send has ended
FailedSends == {"send_failed", "restart_request_failed", "identify_failed"}

\* the statements that send a datagram
SendPoints == {"step_send", "send_restart_request", "hs_send"}

\* C18: a failed send, in step, in the restart request or in the handshake,
\* ends the program: the step it failed in returns no pair and sends no
\* datagram, and from then on nothing is received, nothing is sent, no
\* process is terminated or launched and no socket is created.
C18_FailedSendIsFatal ==
    /\ [](\A i \in 1..Len(log) :
              log[i] \in FailedSends =>
                  /\ pc = "exited"
                  /\ log = <<log[i]>>
                  /\ wire = <<>>
                  /\ result = <<>>)
    /\ [][/\ pc # "exited"
          /\ (pc' = "exited" /\ Head(log') \in FailedSends) =>
                 /\ pc \in SendPoints
                 /\ running' = running
                 /\ command' = command
                 /\ socket' = socket
                 /\ rxq' = rxq]_vars

\* the send of a step failed in a connected session and the program has
\* ended
C18_Witness ==
    /\ pc = "exited"
    /\ log = <<"send_failed">>
    /\ socket
    /\ identified

\* the arguments of a launch other than '-r <race configuration path>'
FlagsOf(args) ==
    {args[i] : i \in {j \in 1..Len(args) :
                          /\ args[j] # "-r"
                          /\ ~(j > 1 /\ args[j - 1] = "-r")}}

\* the argument that follows '-r', as a set
RaceConfigOf(args) ==
    {args[i] : i \in {j \in 2..Len(args) : args[j - 1] = "-r"}}

\* C19: every launch passes the flags -nofuel, -nodamage and -nolaptime and
\* no other; the headless launch adds only '-r <race configuration path>'
\* and runs no autostart step, the interactive launch runs the autostart
\* step right after the process was started.
C19_LaunchFlags ==
    command # <<>> =>
        /\ FlagsOf(command) = {"-nofuel", "-nodamage", "-nolaptime"}
        /\ RaceConfigOf(command) = IF gui THEN {} ELSE {quickrace_xml_path}
        /\ Len(command) = IF gui THEN 3 ELSE 5
        /\ \A i \in 1..Len(log) :
               /\ (log[i] = "launch" /\ gui /\ i < Len(log)) =>
                      log[i + 1] = "autostart"
               /\ log[i] = "autostart" =>
                      gui /\ i > 1 /\ log[i - 1] = "launch"

\* C20: the sensor record a step returns is decoded from a datagram that
\* arrived after the step's action datagram was sent, never from a datagram
\* that was already waiting on the socket at the send and never from an
\* identification reply.
C20_StepDecodesFreshSensors ==
    (op = "step" /\ pc = "idle" /\ Len(result) = 2) =>
        /\ ~Contains(sockdata, identify)
        /\ Count(log, "recv") > queued

\* the handshake is running, a process restart it called included
HsRunning ==
    \/ pc \in {"connect", "hs_send", "hs_recv", "hs_check"}
    \/ /\ pc \in {"server_restart", "init_server", "launch", "autostart"}
       /\ stack # <<>>
       /\ Head(stack) = "hs_check"

\* the identify requests the handshake has to send before it receives the
\* i-th waiting datagram
HsSendsBefore(i) == IF pc = "hs_recv" THEN i - 1 ELSE i

\* an identification reply waits on the socket of the running handshake
\* (within what the model lets the handshake still send)
HsReplyDelivered ==
    /\ HsRunning
    /\ \E i \in 1..Len(rxq) :
           /\ Contains(rxq[i], identify)
           /\ Count(log, "identify") + HsSendsBefore(i) <= MaxAttempts

\* the handshake has returned
HsReturned == pc = "idle" /\ log # <<>> /\ Last(log) = "connected"

\* a non-empty datagram waits on the socket of a step that has sent its
\* action (within what the model lets the step still receive)
StepReplyDelivered ==
    /\ pc = "step_recv"
    /\ \E i \in 1..Len(rxq) :
           /\ rxq[i] # <<>>
           /\ StepWaits + i - 1 <= MaxStepWaits

\* the step has returned its pair
StepReturned == op = "step" /\ pc = "idle" /\ Len(result) = 2

\* C21: once an identification reply is delivered to the running handshake
\* the handshake eventually returns (unless a failing send ends the program
\* first), and once a non-empty datagram is delivered to a step that has
\* sent its action the step eventually returns; and neither loop is left
\* without such a datagram having been received.
C21_LoopsReturnOnDelivery ==
    /\ HsReplyDelivered ~> (HsReturned \/ pc = "exited")
    /\ StepReplyDelivered ~> StepReturned
    /\ [][/\ (pc = "hs_check" /\ pc' # "hs_check" /\ pc' # "hs_send") =>
                 /\ Last(log) = "recv"
                 /\ Contains(sockdata, identify)
                 /\ pc' = "idle"
          /\ (pc = "step_recv" /\ pc' # "step_recv") =>
                 /\ rxq # <<>>
                 /\ Head(rxq) # <<>>
                 /\ pc' = "idle"]_vars

\* a handshake has returned after more than three timeouts and a process
\* restart, the reply having come after the restart
C21_Witness ==
    /\ HsReturned
    /\ op = "restart_environment"
    /\ restarts = 1
    /\ timeouts >= 4

\* the receive attempts among the events l
Attempts(l) == Count(l, "recv") + Count(l, "timeout")

\* C22: in the handshake an identify request is sent right before every
\* receive attempt, so that as many requests are sent as receive attempts
\* are made; after a timeout, after a received datagram without the marker
\* and after a process restart the next thing sent is an identify request;
\* and no action datagram is sent while the handshake runs.
C22_IdentifyBeforeEveryReceive ==
    LET h == HsStart
        n == Len(log)
    IN h > 0 =>
        /\ LET l == SubSeq(log, h + 1, n)
           IN Count(l, "identify") =
                  Attempts(l) + (IF pc = "hs_recv" THEN 1 ELSE 0)
        /\ \A i \in (h + 1)..n :
               /\ log[i] \in {"recv", "timeout"} => log[i - 1] = "identify"
               /\ log[i] # "send"
               /\ i < n =>
                      /\ log[i] = "identify" =>
                             log[i + 1] \in {"recv", "timeout"}
                      /\ log[i] = "timeout" =>
                             log[i + 1] \in {"identify", "restart"}
                      /\ log[i] = "recv" =>
                             log[i + 1] \in {"identify", "connected"}
                      /\ log[i] = LastServerStep => log[i + 1] = "identify"
        /\ Len(wire) = Count(SubSeq(log, 1, h), "send")
        /\ pc = "hs_recv" => log[n] = "identify"

\* the handshake has sent its fifth identify request, after timeouts, a
\* received datagram without the marker and a process restart
C22_Witness ==
    /\ HsStart > 0
    /\ pc = "hs_recv"
    /\ Count(HsLog, "identify") = 5
    /\ Count(HsLog, "recv") >= 1
    /\ restarts = 1


====
